---- MODULE Spec2Model ----
(***************************************************************************)
(* Model of rkellogg26/redaction-tool: the detector                        *)
(* (SensitiveInfoDetector.find_sensitive_text) and the two redaction       *)
(* appliers (redact_pdf / PDFRedactor.redact, redact_docx /                *)
(* WordRedactor.redact) of the three front ends: the command line          *)
(* (redact_cli.py), the desktop tool (redaction_tool.py) and the web       *)
(* service (web_app.py).                                                   *)
(*                                                                         *)
(* A text is a sequence of one-character strings; offsets are 0-based as   *)
(* in Python, so the character at offset i is text[i + 1].                 *)
(***************************************************************************)
EXTENDS Integers, Sequences, FiniteSets, TLC

(***************************************************************************)
(* Characters and the character classes of Python's re (str patterns,      *)
(* re.IGNORECASE).                                                         *)
(***************************************************************************)
LowerSeq == <<"a","b","c","d","e","f","g","h","i","j","k","l","m",
              "n","o","p","q","r","s","t","u","v","w","x","y","z">>

UpperSeq == <<"A","B","C","D","E","F","G","H","I","J","K","L","M",
              "N","O","P","Q","R","S","T","U","V","W","X","Y","Z">>

Lowers == {LowerSeq[i] : i \in DOMAIN LowerSeq}

Uppers == {UpperSeq[i] : i \in DOMAIN UpperSeq}

Letters == Lowers \cup Uppers

Digits == {"0","1","2","3","4","5","6","7","8","9"}

\* \s
Spaces == {" ", "\t", "\n"}

\* The block glyph U+2588 written by redact_cli.py and redaction_tool.py.
\* A character outside ASCII is written as its code point; it is one character.
BLOCK == "U+2588"

\* web_app.py line 241 writes the three characters U+201A U+00F1 U+00E0
\* (the UTF-8 bytes of U+2588 read as Mac Roman) for every redacted character.
WebGlyph == <<"U+201A", "U+00F1", "U+00E0">>

\* \w for the characters of the model: letters, digits, underscore, and the
\* two letters of WebGlyph (Unicode word characters); BLOCK and U+201A are not.
WordChars == Letters \cup Digits \cup {"_", "U+00F1", "U+00E0"}

\* Both cases of a character: how re.IGNORECASE matches a literal.
BothCases(c) ==
    IF c \in Lowers THEN {c, UpperSeq[CHOOSE i \in DOMAIN LowerSeq : LowerSeq[i] = c]}
    ELSE IF c \in Uppers THEN {c, LowerSeq[CHOOSE i \in DOMAIN UpperSeq : UpperSeq[i] = c]}
    ELSE {c}

(***************************************************************************)
(* Regular expressions as syntax trees.                                    *)
(*   Set(S)        one character of S                                      *)
(*   WB            \b                                                      *)
(*   Rep(n,lo,hi)  greedy n{lo,hi}                                         *)
(*   Many(n,lo)    greedy n{lo,}: n* is Many(n,0), n+ is Many(n,1)         *)
(*   Cat(<<..>>)   concatenation                                           *)
(*   Alt(<<..>>)   alternation, leftmost alternative first                 *)
(***************************************************************************)
Set(cs) == [k |-> "set", s |-> cs]

WB == [k |-> "wb"]

Rep(n, lo, hi) == [k |-> "rep", of |-> n, lo |-> lo, hi |-> hi, inf |-> FALSE]

Many(n, lo) == [k |-> "rep", of |-> n, lo |-> lo, hi |-> lo, inf |-> TRUE]

Cat(ns) == [k |-> "cat", of |-> ns]

Alt(ns) == [k |-> "alt", of |-> ns]

Opt(n) == Rep(n, 0, 1)

\* A literal character and a literal string under re.IGNORECASE.
Lit(c) == Set(BothCases(c))

Word(w) == Cat([i \in DOMAIN w |-> Lit(w[i])])

D == Set(Digits)

\* [-.\s]
Sep == Set({"-", "."} \cup Spaces)

\* [-\s]
DashSp == Set({"-"} \cup Spaces)

Ws == Set(Spaces)

(***************************************************************************)
(* The backtracking matcher.  Ends(n, text, i) is the sequence of offsets  *)
(* at which a match of n starting at offset i can end, in the order in     *)
(* which the backtracking engine tries them; the engine's match is the     *)
(* first one.                                                              *)
(***************************************************************************)
IsWordAt(text, i) == i >= 0 /\ i < Len(text) /\ text[i + 1] \in WordChars

RECURSIVE Ends(_, _, _)
RECURSIVE CatEnds(_, _, _, _)
RECURSIVE AltEnds(_, _, _, _)
RECURSIVE RepEnds(_, _, _, _)
RECURSIVE Each(_, _, _, _, _, _)

\* The concatenation, over the offsets js[k..], of the continuation's ends:
\* what = "cat" continues with the items ns[a..] of a concatenation,
\* what = "rep" with one more round of the repetition ns after a rounds.
Each(js, k, what, ns, a, text) ==
    IF k > Len(js) THEN <<>>
    ELSE (IF what = "cat" THEN CatEnds(ns, a, text, js[k])
          ELSE RepEnds(ns, a, text, js[k]))
         \o Each(js, k + 1, what, ns, a, text)

CatEnds(ns, a, text, i) ==
    IF a > Len(ns) THEN <<i>>
    ELSE Each(Ends(ns[a], text, i), 1, "cat", ns, a + 1, text)

AltEnds(ns, a, text, i) ==
    IF a > Len(ns) THEN <<>>
    ELSE Ends(ns[a], text, i) \o AltEnds(ns, a + 1, text, i)

\* Greedy: another round first (a round that consumes nothing ends the loop),
\* then stopping here if the minimum is reached.
RepEnds(n, done, text, i) ==
    LET more == IF n.inf \/ done < n.hi
                THEN Each(SelectSeq(Ends(n.of, text, i), LAMBDA j : j > i),
                          1, "rep", n, done + 1, text)
                ELSE <<>>
        stop == IF done >= n.lo THEN <<i>> ELSE <<>>
    IN  more \o stop

Ends(n, text, i) ==
    CASE n.k = "set" -> IF i < Len(text) /\ text[i + 1] \in n.s THEN <<i + 1>> ELSE <<>>
      [] n.k = "wb"  -> IF IsWordAt(text, i - 1) # IsWordAt(text, i) THEN <<i>> ELSE <<>>
      [] n.k = "rep" -> RepEnds(n, 0, text, i)
      [] n.k = "cat" -> CatEnds(n.of, 1, text, i)
      [] n.k = "alt" -> AltEnds(n.of, 1, text, i)

\* The end of the match of n at offset i, or -1.
First(es) == IF es = <<>> THEN -1 ELSE es[1]

MatchAt(n, text, i) == First(Ends(n, text, i))

\* The first offset at or after pos at which n matches, or -1: the scan of
\* re.finditer tries the offsets from left to right.
Least(ps) == IF ps = {} THEN -1 ELSE CHOOSE p \in ps : \A q \in ps : p <= q

FirstStart(n, text, pos) == Least({p \in pos..Len(text) : Ends(n, text, p) # <<>>})

\* re.finditer(pattern, text): the non-overlapping matches from left to right,
\* as <<start, end>> pairs.  After an empty match the scan moves on by one.
RECURSIVE FindIter(_, _, _)
RECURSIVE FoundAt(_, _, _)
RECURSIVE Found(_, _, _, _)
FindIter(n, text, pos) == FoundAt(n, text, FirstStart(n, text, pos))

\* The scan has found the next match to start at s, or none (-1).
FoundAt(n, text, s) ==
    IF s = -1 THEN <<>> ELSE Found(n, text, s, MatchAt(n, text, s))

\* The match from s to e, and the scan goes on.
Found(n, text, s, e) ==
    <<<<s, e>>>> \o FindIter(n, text, IF e > s THEN e ELSE s + 1)

(***************************************************************************)
(* The patterns of PREDEFINED_CATEGORIES (the same strings in the three    *)
(* files), compiled with re.IGNORECASE.                                    *)
(***************************************************************************)
\* \b\d{3}-\d{2}-\d{4}\b
PatSsnDashed == Cat(<<WB, Rep(D, 3, 3), Lit("-"), Rep(D, 2, 2), Lit("-"), Rep(D, 4, 4), WB>>)

\* \b\d{9}\b
PatSsnPlain == Cat(<<WB, Rep(D, 9, 9), WB>>)

\* \b[A-Za-z0-9._%+-]+@[A-Za-z0-9.-]+\.[A-Z|a-z]{2,}\b
PatEmail ==
    Cat(<<WB, Many(Set(Letters \cup Digits \cup {".", "_", "%", "+", "-"}), 1), Lit("@"),
          Many(Set(Letters \cup Digits \cup {".", "-"}), 1), Lit("."),
          Many(Set(Letters \cup {"|"}), 2), WB>>)

\* \b\d{3}[-.\s]?\d{3}[-.\s]?\d{4}\b
PatPhonePlain == Cat(<<WB, Rep(D, 3, 3), Opt(Sep), Rep(D, 3, 3), Opt(Sep), Rep(D, 4, 4), WB>>)

\* \(\d{3}\)\s*\d{3}[-.\s]?\d{4}\b
PatPhoneParen ==
    Cat(<<Lit("("), Rep(D, 3, 3), Lit(")"), Many(Ws, 0), Rep(D, 3, 3), Opt(Sep),
          Rep(D, 4, 4), WB>>)

\* \b(?:\d{4}[-\s]?){3,4}\d{1,4}\b
PatCreditCard ==
    Cat(<<WB, Rep(Cat(<<Rep(D, 4, 4), Opt(DashSp)>>), 3, 4), Rep(D, 1, 4), WB>>)

\* \b\d{1,2}/\d{1,2}/\d{2,4}\b
PatDateSlash == Cat(<<WB, Rep(D, 1, 2), Lit("/"), Rep(D, 1, 2), Lit("/"), Rep(D, 2, 4), WB>>)

\* \b\d{1,2}-\d{1,2}-\d{2,4}\b
PatDateDash == Cat(<<WB, Rep(D, 1, 2), Lit("-"), Rep(D, 1, 2), Lit("-"), Rep(D, 2, 4), WB>>)

\* \b(?:Jan|Feb|Mar|Apr|May|Jun|Jul|Aug|Sep|Oct|Nov|Dec)[a-z]*\s+\d{1,2},?\s+\d{4}\b
PatDateMonth ==
    Cat(<<WB,
          Alt(<<Word(<<"J","a","n">>), Word(<<"F","e","b">>), Word(<<"M","a","r">>),
                Word(<<"A","p","r">>), Word(<<"M","a","y">>), Word(<<"J","u","n">>),
                Word(<<"J","u","l">>), Word(<<"A","u","g">>), Word(<<"S","e","p">>),
                Word(<<"O","c","t">>), Word(<<"N","o","v">>), Word(<<"D","e","c">>)>>),
          Many(Set(Letters), 0), Many(Ws, 1), Rep(D, 1, 2), Opt(Lit(",")), Many(Ws, 1),
          Rep(D, 4, 4), WB>>)

\* A pattern string re.compile rejects with re.error, such as "[0-9".
BadPattern == [k |-> "bad"]

(***************************************************************************)
(* SensitiveCategory and PREDEFINED_CATEGORIES.  The keys are those of     *)
(* redact_cli.py and web_app.py; redaction_tool.py spells them "SSN",      *)
(* "Email", "Phone", "CreditCard", "Date".  web_app.py's sixth category    *)
(* ("corporate", word patterns only) is left out: no property below reads  *)
(* it.                                                                     *)
(***************************************************************************)
SensitiveCategory(name, patterns, examples, enabled, exact) ==
    [name |-> name, patterns |-> patterns, examples |-> examples,
     enabled |-> enabled, use_exact_match |-> exact]

\* The keys in the order of the dict literal.
CategoryKeys == <<"ssn", "email", "phone", "creditcard", "date">>

KeySet == {CategoryKeys[i] : i \in DOMAIN CategoryKeys}

PREDEFINED_CATEGORIES ==
    [key \in KeySet |->
        CASE key = "ssn" ->
               SensitiveCategory("Social Security Numbers", <<PatSsnDashed, PatSsnPlain>>,
                                 <<>>, TRUE, FALSE)
          [] key = "email" ->
               SensitiveCategory("Email Addresses", <<PatEmail>>, <<>>, TRUE, FALSE)
          [] key = "phone" ->
               SensitiveCategory("Phone Numbers", <<PatPhonePlain, PatPhoneParen>>,
                                 <<>>, TRUE, FALSE)
          [] key = "creditcard" ->
               SensitiveCategory("Credit Card Numbers", <<PatCreditCard>>, <<>>, TRUE, FALSE)
          [] key = "date" ->
               SensitiveCategory("Dates", <<PatDateSlash, PatDateDash, PatDateMonth>>,
                                 <<>>, TRUE, FALSE)]

CUSTOM == "Custom Terms"

CategoryNames == {PREDEFINED_CATEGORIES[key].name : key \in KeySet} \cup {CUSTOM}

(***************************************************************************)
(* SensitiveInfoDetector.  categories is the dict, as the sequence of its  *)
(* items in insertion order.  An item holds either a reference to a        *)
(* predefined category object (shared = TRUE: the object is cat[key], cat  *)
(* being the current state of the PREDEFINED_CATEGORIES objects) or an     *)
(* object of its own (obj).                                                *)
(***************************************************************************)
NoObj == SensitiveCategory("", <<>>, <<>>, FALSE, FALSE)

SharedItem(key) == [key |-> key, shared |-> TRUE, obj |-> NoObj]

OwnItem(key, obj) == [key |-> key, shared |-> FALSE, obj |-> obj]

\* __init__
NewDetector == [categories |-> <<>>, custom_terms |-> <<>>]

HasKey(items, key) == \E i \in DOMAIN items : items[i].key = key

\* self.categories[key] = category: a known key keeps its place in the dict.
add_category(det, item) ==
    [det EXCEPT !.categories =
        IF HasKey(det.categories, item.key)
        THEN [i \in DOMAIN det.categories |->
                 IF det.categories[i].key = item.key THEN item ELSE det.categories[i]]
        ELSE Append(det.categories, item)]

\* del self.categories[key], if present
remove_category(det, key) ==
    [det EXCEPT !.categories = SelectSeq(det.categories, LAMBDA it : it.key # key)]

\* str.strip()
RECURSIVE LStrip(_)
LStrip(t) == IF t # <<>> /\ t[1] \in Spaces THEN LStrip(Tail(t)) ELSE t

RECURSIVE RStrip(_)
RStrip(t) ==
    IF t # <<>> /\ t[Len(t)] \in Spaces THEN RStrip(SubSeq(t, 1, Len(t) - 1)) ELSE t

Strip(t) == RStrip(LStrip(t))

\* The terms stripped, blank ones kept: [t.strip() for t in terms].
RECURSIVE StripOnly(_)
StripOnly(terms) ==
    IF terms = <<>> THEN <<>> ELSE <<Strip(terms[1])>> \o StripOnly(Tail(terms))

\* self.custom_terms = [t.strip() for t in terms if t.strip()]
RECURSIVE StripTerms(_)
StripTerms(terms) ==
    IF terms = <<>> THEN <<>>
    ELSE (IF Strip(terms[1]) # <<>> THEN <<Strip(terms[1])>> ELSE <<>>)
         \o StripTerms(Tail(terms))

set_custom_terms(det, terms) == [det EXCEPT !.custom_terms = StripTerms(terms)]

\* The category objects the dict iterates over, in order.
Resolve(items, cat) ==
    [i \in DOMAIN items |-> IF items[i].shared THEN cat[items[i].key] ELSE items[i].obj]

(***************************************************************************)
(* find_sensitive_text.  A match is the tuple                              *)
(* (start, end, matched_text, category_name).                              *)
(***************************************************************************)
Match(start, end, text, name) ==
    [start |-> start, end |-> end, text |-> SubSeq(text, start + 1, end), category |-> name]

\* for match in re.finditer(pattern, text, re.IGNORECASE): matches.append(...)
AsMatches(ps, text, name) ==
    [i \in DOMAIN ps |-> Match(ps[i][1], ps[i][2], text, name)]

\* try: ... except re.error: continue -- a pattern re rejects adds nothing.
PatternMatches(n, text, name) ==
    IF n.k = "bad" THEN <<>> ELSE AsMatches(FindIter(n, text, 0), text, name)

\* A loop over the patterns that ends at the first pattern re rejects.
RECURSIVE PatternsUntilError(_, _, _)
PatternsUntilError(pats, text, name) ==
    IF pats = <<>> \/ pats[1].k = "bad" THEN <<>>
    ELSE PatternMatches(pats[1], text, name) \o PatternsUntilError(Tail(pats), text, name)

RECURSIVE PatternsMatches(_, _, _)
PatternsMatches(pats, text, name) ==
    IF pats = <<>> THEN <<>>
    ELSE PatternMatches(pats[1], text, name) \o PatternsMatches(Tail(pats), text, name)

\* A scan that leaves the terms out.
NoTermsMatches(terms, text, name, guarded) == <<>>

\* for term in terms: re.finditer(re.escape(term), text, re.IGNORECASE);
\* guarded says whether the loop skips a term whose strip() is empty.
RECURSIVE TermsMatches(_, _, _, _)
TermsMatches(terms, text, name, guarded) ==
    IF terms = <<>> THEN <<>>
    ELSE (IF guarded /\ Strip(terms[1]) = <<>> THEN <<>>
          ELSE PatternMatches(Word(terms[1]), text, name))
         \o TermsMatches(Tail(terms), text, name, guarded)

\* The loop over self.categories.items(); exact says whether the loop body
\* also scans the examples of a use_exact_match category (redaction_tool.py).
RECURSIVE CategoriesMatches(_, _, _)
CategoriesMatches(cats, text, exact) ==
    IF cats = <<>> THEN <<>>
    ELSE (IF ~cats[1].enabled THEN <<>>
          ELSE PatternsMatches(cats[1].patterns, text, cats[1].name)
               \o (IF exact /\ cats[1].use_exact_match
                   THEN TermsMatches(cats[1].examples, text, cats[1].name, TRUE)
                   ELSE <<>>))
         \o CategoriesMatches(Tail(cats), text, exact)

\* The raw occurrences, in the order the loops append them.
RawMatches(im, cats, terms, text) ==
    IF im = "gui" THEN CategoriesMatches(cats, text, TRUE)
    ELSE CategoriesMatches(cats, text, FALSE) \o TermsMatches(terms, text, CUSTOM, FALSE)

\* A sort key without the length: key=lambda x: x[0].
KeyByStart(a, b) == a.start <= b.start

\* key=lambda x: (x[0], -(x[1] - x[0])): a's key is not greater than b's.
KeyLE(a, b) ==
    \/ a.start < b.start
    \/ a.start = b.start /\ -(a.end - a.start) <= -(b.end - b.start)

\* list.sort is stable: x goes after every element whose key is not greater.
RECURSIVE InsertSorted(_, _)
InsertSorted(sorted, x) ==
    IF sorted = <<>> THEN <<x>>
    ELSE IF KeyLE(sorted[Len(sorted)], x) THEN Append(sorted, x)
    ELSE Append(InsertSorted(SubSeq(sorted, 1, Len(sorted) - 1), x), sorted[Len(sorted)])

\* No sort: the raw list goes to the sweep as collected.
Unsorted(ms) == ms

RECURSIVE SortMatches(_)
SortMatches(ms) ==
    IF ms = <<>> THEN <<>>
    ELSE InsertSorted(SortMatches(SubSeq(ms, 1, Len(ms) - 1)), ms[Len(ms)])

\* A sweep that keeps every match.
KeepsAll(m, last_end) == TRUE

\* if match[0] >= last_end
Keeps(m, last_end) == m.start >= last_end

\* The sweep: filtered, last_end = [], -1; for match in matches: ...
RECURSIVE Sweep(_, _, _)
Sweep(ms, k, last_end) ==
    IF k > Len(ms) THEN <<>>
    ELSE IF Keeps(ms[k], last_end) THEN <<ms[k]>> \o Sweep(ms, k + 1, ms[k].end)
    ELSE Sweep(ms, k + 1, last_end)

find_sensitive_text(im, det, cat, text) ==
    Sweep(SortMatches(RawMatches(im, Resolve(det.categories, cat), det.custom_terms, text)),
          1, -1)

(***************************************************************************)
(* The paragraph format.  A paragraph is the sequence of its runs; a run   *)
(* is its text, the four font attributes process_paragraph copies, and     *)
(* color, which stands for the formatting it does not touch.               *)
(***************************************************************************)
Run(text, name, size, bold, italic, color) ==
    [text |-> text, name |-> name, size |-> size, bold |-> bold, italic |-> italic,
     color |-> color]

\* para.text: the concatenation of the runs' text
RECURSIVE ParaText(_)
ParaText(runs) == IF runs = <<>> THEN <<>> ELSE runs[1].text \o ParaText(Tail(runs))

\* The string that replaces one redacted character: redact_cli.py line 172 and
\* redaction_tool.py line 265 write U+2588, web_app.py line 241 writes WebGlyph.
Glyph(im) == IF im = "web" THEN WebGlyph ELSE <<BLOCK>>

\* "".join(new_text)
RECURSIVE Join(_)
Join(parts) == IF parts = <<>> THEN <<>> ELSE parts[1] \o Join(Tail(parts))

\* A loop body that writes no glyph.
BlankNothing(new_text, m, glyph) == new_text

\* for i in range(start, end): new_text[i] = glyph
Blank(new_text, m, glyph) ==
    [i \in DOMAIN new_text |-> IF m.start < i /\ i <= m.end THEN glyph ELSE new_text[i]]

\* A count of the total only.
CountTotalOnly(st, category) == [st EXCEPT !.redactions = @ + 1]

\* stats["redactions"] += 1
\* stats["categories"][category] = stats["categories"].get(category, 0) + 1
CountMatch(st, category) ==
    [st EXCEPT !.redactions = @ + 1,
               !.categories = [c \in DOMAIN @ \cup {category} |->
                                  IF c = category
                                  THEN (IF c \in DOMAIN @ THEN @[c] ELSE 0) + 1
                                  ELSE @[c]]]

\* A loop that counts a redaction for every character it replaces.
RECURSIVE RedactLoopPerChar(_, _, _, _, _)
RedactLoopPerChar(new_text, st, ms, k, glyph) ==
    IF k > Len(ms) THEN [new_text |-> new_text, stats |-> st]
    ELSE RedactLoopPerChar(Blank(new_text, ms[k], glyph),
                           [CountMatch(st, ms[k].category) EXCEPT
                               !.redactions = st.redactions + ms[k].end - ms[k].start],
                           ms, k + 1, glyph)

\* The loop over the matches: the list of characters and the stats after it.
RECURSIVE RedactLoop(_, _, _, _, _)
RedactLoop(new_text, st, ms, k, glyph) ==
    IF k > Len(ms) THEN [new_text |-> new_text, stats |-> st]
    ELSE RedactLoop(Blank(new_text, ms[k], glyph), CountMatch(st, ms[k].category),
                    ms, k + 1, glyph)

\* A rewrite that leaves the later runs as they are.
RewriteFirstOnly(runs, new_text) ==
    IF runs = <<>> THEN runs ELSE [runs EXCEPT ![1].text = new_text]

\* if para.runs: every run's text is cleared, the first run gets new_text and
\* its own font name, size, bold and italic written back.
Rewrite(runs, new_text) ==
    IF runs = <<>> THEN runs
    ELSE [i \in DOMAIN runs |->
             IF i = 1
             THEN [runs[1] EXCEPT !.text = new_text, !.name = runs[1].name,
                                  !.size = runs[1].size, !.bold = runs[1].bold,
                                  !.italic = runs[1].italic]
             ELSE [runs[i] EXCEPT !.text = <<>>]]

\* Only the first early return: if not full_text: return.
ReturnsOnEmptyText(full_text, ms) == full_text = <<>>

\* The early returns: empty text, or no matches.
Returns(full_text, ms) == full_text = <<>> \/ ms = <<>>

\* The loop has returned res: the runs are rewritten from "".join(new_text).
Rewritten(runs, full_text, ms, res) ==
    [runs |-> Rewrite(runs, Join(res.new_text)), stats |-> res.stats,
     text |-> full_text, matches |-> ms]

\* process_paragraph after the scan of full_text has returned ms: the
\* paragraph and the stats after the call, with the text and the matches.
Redacted(im, runs, st, full_text, ms) ==
    IF Returns(full_text, ms)
    THEN [runs |-> runs, stats |-> st, text |-> full_text, matches |-> ms]
    ELSE Rewritten(runs, full_text, ms,
                   RedactLoop([i \in DOMAIN full_text |-> <<full_text[i]>>], st, ms, 1,
                              Glyph(im)))

\* A unit's text is not scanned when it is empty.
Scan(im, det, cat, text) ==
    IF text = <<>> THEN <<>> ELSE find_sensitive_text(im, det, cat, text)

\* process_paragraph / _process_paragraph
process_paragraph(im, det, cat, runs, st) ==
    Redacted(im, runs, st, ParaText(runs), Scan(im, det, cat, ParaText(runs)))

\* The parts of a document in the order the loops of redact visit them.  The
\* three header kinds (and the three footer kinds) of a section go through one
\* loop body each and are one part here.
Parts == <<"body", "tables", "headers", "footers">>

\* The parts an implementation's redact loops over: redact_cli.py and
\* web_app.py stop after the tables.
VisitedParts(im) == IF im = "gui" THEN {"body", "tables", "headers", "footers"}
                    ELSE {"body", "tables"}

\* layout is the sequence of the parts of the document's paragraphs, in
\* document order; the paragraphs redact processes, as indices of layout.
Enumerate(im, layout) ==
    SelectSeq([i \in DOMAIN layout |-> i], LAMBDA i : layout[i] \in VisitedParts(im))

(***************************************************************************)
(* The page format.  A page is the sequence of its spans (the spans of     *)
(* page.get_text("dict"), block by block and line by line; type is the     *)
(* type of the span's block, 0 for a text block), the regions marked by    *)
(* add_redact_annot and the number of apply_redactions calls.              *)
(***************************************************************************)
Span(text, type) == [text |-> text, type |-> type]

Page(spans) == [spans |-> spans, annots |-> <<>>, applied |-> 0]

\* page.search_for(needle): a region for every occurrence of the string in
\* the text of the page, whatever its case.
Regions(k, hits) ==
    [i \in DOMAIN hits |-> [span |-> k, start |-> hits[i][1], end |-> hits[i][2]]]

RECURSIVE search_for(_, _, _)
search_for(spans, k, needle) ==
    IF k > Len(spans) THEN <<>>
    ELSE (IF spans[k].type # 0 THEN <<>>
          ELSE Regions(k, FindIter(Word(needle), spans[k].text, 0)))
         \o search_for(spans, k + 1, needle)

\* for inst in instances: page.add_redact_annot(inst); the two counters += 1
RECURSIVE MarkInstances(_, _, _, _)
MarkInstances(pg, st, insts, category) ==
    IF insts = <<>> THEN [page |-> pg, stats |-> st]
    ELSE MarkInstances([pg EXCEPT !.annots = Append(@, insts[1])],
                       CountMatch(st, category), Tail(insts), category)

\* for start, end, matched_text, category in matches: ...
RECURSIVE MarkMatches(_, _, _, _)
RECURSIVE MarkNext(_, _, _)
MarkMatches(pg, st, ms, k) ==
    IF k > Len(ms) THEN [page |-> pg, stats |-> st]
    ELSE MarkNext(ms, k, MarkInstances(pg, st, search_for(pg.spans, 1, ms[k].text),
                                       ms[k].category))

\* The loop goes on after the instances of match k have been marked.
MarkNext(ms, k, r) == MarkMatches(r.page, r.stats, ms, k + 1)

\* The body of the loop over the spans after the scan of the span's text has
\* returned ms.
Scanned(pg, st, text, ms) ==
    MarkMatches(pg, st, ms, 1) @@ [text |-> text, matches |-> ms]

\* The body of the loop over the spans, for span k of the page: the span of an
\* image block and an empty span are skipped.
scan_span(im, det, cat, pg, k, st) ==
    Scanned(pg, st, pg.spans[k].text,
            Scan(im, det, cat, IF pg.spans[k].type # 0 THEN <<>> ELSE pg.spans[k].text))

\* Whether offset i (0-based) of span k lies in a marked region.
Marked(annots, k, i) ==
    \E a \in DOMAIN annots :
        annots[a].span = k /\ annots[a].start <= i /\ i < annots[a].end

\* The characters of span k from offset i on that lie under no marked region.
RECURSIVE Unmarked(_, _, _, _)
Unmarked(t, annots, k, i) ==
    IF i >= Len(t) THEN <<>>
    ELSE (IF Marked(annots, k, i) THEN <<>> ELSE <<t[i + 1]>>)
         \o Unmarked(t, annots, k, i + 1)

\* A page left as it is: the fills stay pending.
ApplyNothing(pg) == pg

\* page.apply_redactions(): the text under every marked region is removed.
apply_redactions(pg) ==
    [pg EXCEPT
        !.spans = [k \in DOMAIN pg.spans |->
                      [pg.spans[k] EXCEPT !.text = Unmarked(@, pg.annots, k, 0)]],
        !.annots = <<>>,
        !.applied = @ + 1]

(***************************************************************************)
(* Bounds and the inputs drawn from them.                                  *)
(***************************************************************************)
\* Categories selected on the command line or in the form, besides "all".
MaxCats == 2

\* Custom terms supplied.
MaxTerms == 1

\* Paragraphs of a document.
MaxParas == 2

\* Pages of a document.
MaxPages == 2

Impls == {"cli", "gui", "web"}

\* The sequences of at most n elements of a set.
SeqsUpTo(set, n) == UNION {[1..k -> set] : k \in 0..n}

NoRepeat(q) == \A i, j \in DOMAIN q : i # j => q[i] # q[j]

\* --categories / the form's categories: any selection in any order, or the
\* default, every key in the order of PREDEFINED_CATEGORIES.
CatOrders == {q \in SeqsUpTo(KeySet, MaxCats) : NoRepeat(q)} \cup {CategoryKeys}

\* "123-45", "123-45-6789", "John Doe" and a blank term
TermPool ==
    { <<"1","2","3","-","4","5">>,
      <<"1","2","3","-","4","5","-","6","7","8","9">>,
      <<"J","o","h","n"," ","D","o","e">>,
      <<" ">> }

TermLists == SeqsUpTo(TermPool, MaxTerms)

\* The texts find_sensitive_text is applied to on its own.
Texts ==
    { <<"1","2","3","-","4","5","-","6","7","8","9">>,
      <<"1","2","3","4","5","6","7","8","9">>,
      <<"1","/","2","/","2","0","-","1","1","-","2","0","2","4">>,
      <<"1","2","3","-","4","5","-","6","7","8","9","@","x",".","c","o">>,
      <<"C","o","n","t","a","c","t"," ","J","o","h","n"," ","D","o","e"," ","a","t"," ",
        "j","o","h","n","@","x",".","c","o","m"," ","o","r"," ",
        "5","5","5","-","1","2","3","-","4","5","6","7",".">>,
      <<"(","5","5","5",")"," ","1","2","3","-","4","5","6","7"," ","x">>,
      <<"4","1","1","1","-","1","1","1","1","-","1","1","1","1","-","1","1","1","1"," ",
        "J","a","n"," ","5",","," ","2","0","2","4">>,
      <<>> }

FirstRun(text) == Run(text, "Arial", 12, TRUE, FALSE, "red")

LaterRun(text) == Run(text, "Times", 10, FALSE, TRUE, "blue")

\* The paragraphs a document is made of: "123-45-6789"; "SSN 123-45" +
\* "-6789 ok" in two runs; "hello " + "world"; "1/2/20-11-2024"; an empty run;
\* "123-45123456789".
ParaPool ==
    { <<FirstRun(<<"1","2","3","-","4","5","-","6","7","8","9">>)>>,
      <<FirstRun(<<"1","2","3","-","4","5","1","2","3","4","5","6","7","8","9">>)>>,
      <<FirstRun(<<"S","S","N"," ","1","2","3","-","4","5">>),
        LaterRun(<<"-","6","7","8","9"," ","o","k">>)>>,
      <<FirstRun(<<"h","e","l","l","o"," ">>), LaterRun(<<"w","o","r","l","d">>)>>,
      <<FirstRun(<<"1","/","2","/","2","0","-","1","1","-","2","0","2","4">>)>>,
      <<FirstRun(<<>>)>> }

\* The spans pages are made of: "a@b.co", "see A@B.CO" and "hello " in a text
\* block, and the span of an image block.
SpanMail == Span(<<"a","@","b",".","c","o">>, 0)

SpanSee == Span(<<"s","e","e"," ","A","@","B",".","C","O">>, 0)

SpanHello == Span(<<"h","e","l","l","o"," ">>, 0)

SpanImage == Span(<<"a","@","b",".","c","o">>, 1)

PagePool ==
    {Page(<<>>), Page(<<SpanMail>>), Page(<<SpanHello, SpanMail>>),
     Page(<<SpanMail, SpanSee>>), Page(<<SpanMail, SpanImage, SpanMail>>),
     Page(<<Span(<<>>, 0), SpanHello>>)}

\* The custom terms of a redact run: none, or "123-45".
RunTerms == {<<>>, <<<<"1","2","3","-","4","5">>>>}

PartIndex(part) == CHOOSE i \in DOMAIN Parts : Parts[i] = part

\* A document's paragraphs by part, in document order.
Layouts ==
    {q \in SeqsUpTo({Parts[i] : i \in DOMAIN Parts}, MaxParas) :
        \A i, j \in DOMAIN q : i < j => PartIndex(q[i]) <= PartIndex(q[j])}

\* The detector main() / preview() / redact_batch() build from the selected
\* keys and the custom terms.
RECURSIVE AddAll(_, _)
AddAll(det, keys) ==
    IF keys = <<>> THEN det ELSE AddAll(add_category(det, SharedItem(keys[1])), Tail(keys))

BuildDetector(keys, terms) == set_custom_terms(AddAll(NewDetector, keys), terms)

\* The desktop tool's detector: _initialize_categories adds every predefined
\* category; _update_custom_terms adds the "Custom" category with the stripped
\* terms.
BuildGuiDetector(terms) ==
    IF StripTerms(terms) = <<>> THEN AddAll(NewDetector, CategoryKeys)
    ELSE add_category(AddAll(NewDetector, CategoryKeys),
                      OwnItem("Custom",
                              SensitiveCategory(CUSTOM, <<>>, StripTerms(terms), TRUE, TRUE)))

\* The desktop tool's checkboxes set the enabled flag of the predefined objects.
GuiCatalog(keys) ==
    [key \in KeySet |->
        [PREDEFINED_CATEGORIES[key] EXCEPT !.enabled = \E i \in DOMAIN keys : keys[i] = key]]

\* stats = {"pages" / "paragraphs": 0, "redactions": 0, "categories": {}}
NoStats == [units |-> 0, redactions |-> 0, categories |-> [c \in {} |-> 0]]

(***************************************************************************)
(* Whole documents.  A paragraph-format document is the sequence of its    *)
(* paragraphs, each with the part of the document it is in; a page-format  *)
(* document is the sequence of its pages.                                  *)
(***************************************************************************)
Para(part, runs) == [part |-> part, runs |-> runs]

\* The loops of redact_docx / WordRedactor.redact over the whole document: a
\* paragraph of a part the front end does not enumerate is left alone.
RECURSIVE RedactParas(_, _, _, _, _, _)
RECURSIVE ParaDone(_, _, _, _, _, _)
RedactParas(im, det, cat, doc, k, st) ==
    IF k > Len(doc) THEN [doc |-> doc, stats |-> st]
    ELSE IF doc[k].part \notin VisitedParts(im) THEN RedactParas(im, det, cat, doc, k + 1, st)
    ELSE ParaDone(im, det, cat, doc, k,
                  process_paragraph(im, det, cat, doc[k].runs, [st EXCEPT !.units = @ + 1]))

\* The loop goes on after process_paragraph has returned r for paragraph k.
ParaDone(im, det, cat, doc, k, r) ==
    RedactParas(im, det, cat, [doc EXCEPT ![k].runs = r.runs], k + 1, r.stats)

\* The loop over the spans of one page.
RECURSIVE RedactSpans(_, _, _, _, _, _)
RECURSIVE SpanDone(_, _, _, _, _)
RedactSpans(im, det, cat, pg, k, st) ==
    IF k > Len(pg.spans) THEN [page |-> pg, stats |-> st]
    ELSE SpanDone(im, det, cat, k, scan_span(im, det, cat, pg, k, st))

\* The loop goes on after the body has returned r for span k.
SpanDone(im, det, cat, k, r) == RedactSpans(im, det, cat, r.page, k + 1, r.stats)

\* The loop over the pages: count the page, scan its spans, apply.
RECURSIVE RedactPages(_, _, _, _, _, _)
RECURSIVE PageDone(_, _, _, _, _, _)
RedactPages(im, det, cat, doc, k, st) ==
    IF k > Len(doc) THEN [doc |-> doc, stats |-> st]
    ELSE PageDone(im, det, cat, doc, k,
                  RedactSpans(im, det, cat, doc[k], 1, [st EXCEPT !.units = @ + 1]))

\* page.apply_redactions() after the spans of page k, and on to the next page.
PageDone(im, det, cat, doc, k, r) ==
    RedactPages(im, det, cat, [doc EXCEPT ![k] = apply_redactions(r.page)], k + 1, r.stats)

\* redact_pdf / redact_docx up to the save: the document to be saved and the
\* stats to be returned.
Redact(im, det, cat, ext, doc) ==
    IF ext = ".pdf" THEN RedactPages(im, det, cat, doc, 1, NoStats)
    ELSE RedactParas(im, det, cat, doc, 1, NoStats)

\* page.get_text(): the text spans of the page, a line each.
RECURSIVE PageText(_, _)
PageText(spans, k) ==
    IF k > Len(spans) THEN <<>>
    ELSE (IF spans[k].type # 0 THEN <<>> ELSE spans[k].text \o <<"\n">>)
         \o PageText(spans, k + 1)

\* for page in doc: text += page.get_text() + "\n"
RECURSIVE PagesText(_, _)
PagesText(doc, k) ==
    IF k > Len(doc) THEN <<>>
    ELSE PageText(doc[k].spans, 1) \o <<"\n">> \o PagesText(doc, k + 1)

\* The texts of doc.paragraphs: the paragraphs of the body, in order.
BodyTexts(doc) ==
    LET body == SelectSeq(doc, LAMBDA p : p.part = "body")
    IN  [i \in DOMAIN body |-> ParaText(body[i].runs)]

\* "\n".join(texts)
RECURSIVE JoinLines(_)
JoinLines(texts) ==
    IF texts = <<>> THEN <<>>
    ELSE IF Len(texts) = 1 THEN texts[1]
    ELSE texts[1] \o <<"\n">> \o JoinLines(Tail(texts))

\* for para in doc.paragraphs: text += para.text + "\n"
RECURSIVE EndLines(_)
EndLines(texts) ==
    IF texts = <<>> THEN <<>> ELSE texts[1] \o <<"\n">> \o EndLines(Tail(texts))

\* The text preview scans: preview_document (redact_cli.py), extract_text
\* (web_app.py), _extract_text (redaction_tool.py).
extract_text(im, ext, doc) ==
    IF ext = ".pdf" THEN PagesText(doc, 1)
    ELSE IF im = "gui" THEN EndLines(BodyTexts(doc))
    ELSE JoinLines(BodyTexts(doc))

\* category_counts / by_category: the number of matches of each category.
CategoryCounts(ms) ==
    [c \in {ms[i].category : i \in DOMAIN ms} |->
        Cardinality({i \in DOMAIN ms : ms[i].category = c})]

(***************************************************************************)
(* The boundaries.  An input file is its stem and extension, its document, *)
(* whether opening it succeeds, and what saving its redacted copy does:    *)
(* "ok", "partial" (doc.save raises after writing part of the file) or     *)
(* "nothing" (doc.save raises before writing).                             *)
(***************************************************************************)
File(stem, ext, doc, opens, saves) ==
    [stem |-> stem, ext |-> ext, doc |-> doc, opens |-> opens, saves |-> saves]

\* ext not in [".pdf", ".docx"]
Supported(ext) == ext \in {".pdf", ".docx"}

\* The files the program has created: the writes to output paths in order
\* (path, document, whether the save returned), the uploads present in
\* UPLOAD_FOLDER, the batch folders and the archives in OUTPUT_FOLDER.
NoFiles == [written |-> <<>>, uploads |-> {}, folders |-> {}, zips |-> {}]

Written(path, doc, complete) == [path |-> path, doc |-> doc, complete |-> complete]

\* f"{stem}_redacted{ext}"
OutputName(f) == <<f.stem, "_redacted", f.ext>>

\* One call of redact_pdf / redact_docx on file f with output path `path`:
\* whether it returned (ok), its stats, and the writes to the output path.
\* doc.save(output_path); return stats, after the loops have returned r.
Save(f, path, r) ==
    CASE f.saves = "ok" ->
           [ok |-> TRUE, stats |-> r.stats, written |-> <<Written(path, r.doc, TRUE)>>]
      [] f.saves = "partial" ->
           [ok |-> FALSE, stats |-> NoStats, written |-> <<Written(path, r.doc, FALSE)>>]
      [] OTHER ->
           [ok |-> FALSE, stats |-> NoStats, written |-> <<>>]

RedactFile(im, det, cat, f, path) ==
    IF ~f.opens THEN [ok |-> FALSE, stats |-> NoStats, written |-> <<>>]
    ELSE Save(f, path, Redact(im, det, cat, f.ext, f.doc))

\* What a boundary has reported when nothing has been reported yet.
NoResponse == [status |-> "none"]

\* The outcome of main(): the exit code, what was printed (the error, the
\* preview's items and total, or the stats), the detector and the files.
Exit(code, error, det, text, ms, st, written) ==
    [response |-> [status |-> "exit", code |-> code, error |-> error,
                   total |-> Len(ms), items |-> CategoryCounts(ms),
                   redactions |-> st.redactions, categories |-> st.categories],
     detector |-> det, text |-> text, matches |-> ms, stats |-> st,
     fs |-> [NoFiles EXCEPT !.written = written]]

\* A main() that does not look at the preview flag.
NeverPreview(args) == FALSE

\* if args.preview: preview_document(args.input, detector); return
IsPreview(args) == args.preview

\* preview_document: an input that cannot be opened raises out of main.
\* matches = detector.find_sensitive_text(text) and the printed report.
Previewed(det, cat, text) ==
    Exit(0, "", det, text, find_sensitive_text("cli", det, cat, text), NoStats, <<>>)

preview_document(det, cat, f) ==
    IF ~f.opens THEN Exit(1, "open", det, <<>>, <<>>, NoStats, <<>>)
    ELSE Previewed(det, cat, extract_text("cli", f.ext, f.doc))

\* The try / except of main around redact_pdf / redact_docx, which returned r.
redact_document(det, r) ==
    IF r.ok THEN Exit(0, "", det, <<>>, <<>>, r.stats, r.written)
    ELSE Exit(1, "redact", det, <<>>, <<>>, NoStats, r.written)

\* main() after the detector is set up.
Detect(args, cat, det) ==
    IF IsPreview(args) THEN preview_document(det, cat, args.files[1])
    ELSE redact_document(det, RedactFile("cli", det, cat, args.files[1],
                                         OutputName(args.files[1])))

\* main() of redact_cli.py for the parsed arguments.
main(args, cat) ==
    IF ~args.exists THEN Exit(1, "not found", NewDetector, <<>>, <<>>, NoStats, <<>>)
    ELSE IF ~Supported(args.files[1].ext)
    THEN Exit(1, "unsupported", NewDetector, <<>>, <<>>, NoStats, <<>>)
    ELSE Detect(args, cat, BuildDetector(args.keys, args.terms))

\* str.split("\n")
RECURSIVE SplitLines(_, _)
SplitLines(t, line) ==
    IF t = <<>> THEN <<line>>
    ELSE IF t[1] = "\n" THEN <<line>> \o SplitLines(Tail(t), <<>>)
    ELSE SplitLines(Tail(t), Append(line, t[1]))

\* request.form.get('custom_terms', '').strip().split('\n'), and the same
\* expression on the text box of the desktop tool: the field holds the lines.
FieldTerms(lines) == SplitLines(Strip(JoinLines(lines)), <<>>)

\* The outcome of a route of web_app.py: the JSON payload and the files.
Json(payload, det, text, ms, fs) ==
    [response |-> payload, detector |-> det, text |-> text, matches |-> ms,
     stats |-> NoStats, fs |-> fs]

\* jsonify({'error': ...})
ErrorPayload(error) == [status |-> "json", success |-> FALSE, error |-> error]

\* A handler that leaves the input copy where it is.
KeepUpload(uploads, id) == uploads

\* file.save(str(input_path)): the input copy of upload id in UPLOAD_FOLDER.
SaveUpload(uploads, id) == uploads \cup {id}

\* os.remove(input_path)
RemoveUpload(uploads, id) == uploads \ {id}

\* The /preview route.  The upload is written to UPLOAD_FOLDER before the
\* try and removed again on both paths of the try.
PreviewPayload(det, text, ms, uploads) ==
    Json([status |-> "json", success |-> FALSE, error |-> "",
          total |-> Len(ms), categories |-> CategoryCounts(ms)],
         det, text, ms, [NoFiles EXCEPT !.uploads = RemoveUpload(uploads, 1)])

\* The try of /preview: extract_text, find_sensitive_text, the payload.
TryPreview(det, cat, f, text, uploads) ==
    IF ~f.opens
    THEN Json(ErrorPayload("open"), det, <<>>, <<>>,
              [NoFiles EXCEPT !.uploads = RemoveUpload(uploads, 1)])
    ELSE PreviewPayload(det, text, find_sensitive_text("web", det, cat, text), uploads)

preview(req, cat) ==
    IF req.files = <<>> THEN Json(ErrorPayload("no file"), NewDetector, <<>>, <<>>, NoFiles)
    ELSE IF ~Supported(req.files[1].ext)
    THEN Json(ErrorPayload("unsupported"), NewDetector, <<>>, <<>>, NoFiles)
    ELSE TryPreview(BuildDetector(req.keys, FieldTerms(req.terms)), cat, req.files[1],
                    extract_text("web", req.files[1].ext, req.files[1].doc),
                    SaveUpload({}, 1))

\* total_categories[cat] = total_categories.get(cat, 0) + count
AddCounts(a, b) ==
    [c \in DOMAIN a \cup DOMAIN b |->
        (IF c \in DOMAIN a THEN a[c] ELSE 0) + (IF c \in DOMAIN b THEN b[c] ELSE 0)]

\* The try / except of the loop body for file f, whose redact returned r (or
\* raised): the entry appended to results, the totals, the writes.
BatchEntry(acc, k, f, r) ==
    IF r.ok
    THEN [results |-> Append(acc.results,
                         [original_name |-> <<f.stem, f.ext>>, ok |-> TRUE,
                          output_name |-> OutputName(f),
                          redactions |-> r.stats.redactions,
                          categories |-> r.stats.categories]),
          total_redactions |-> acc.total_redactions + r.stats.redactions,
          total_categories |-> AddCounts(acc.total_categories, r.stats.categories),
          written |-> acc.written \o r.written,
          uploads |-> RemoveUpload(SaveUpload(acc.uploads, k), k)]
    ELSE [acc EXCEPT
             !.results = Append(@, [original_name |-> <<f.stem, f.ext>>, ok |-> FALSE]),
             !.written = @ \o r.written,
             !.uploads = RemoveUpload(SaveUpload(@, k), k)]

\* The loop of redact_batch over the uploaded files, from file k on: acc holds
\* results, total_redactions, total_categories, the writes so far and the
\* input copies in UPLOAD_FOLDER.  A file with another extension is passed
\* over; the input copy of file k is saved before the try and removed on both
\* paths of it.
RECURSIVE BatchLoop(_, _, _, _, _)
BatchLoop(det, cat, files, k, acc) ==
    IF k > Len(files) THEN acc
    ELSE IF ~Supported(files[k].ext) THEN BatchLoop(det, cat, files, k + 1, acc)
    ELSE BatchLoop(det, cat, files, k + 1,
                   BatchEntry(acc, k, files[k],
                              RedactFile("web", det, cat, files[k], OutputName(files[k]))))

\* The files of the batch folder: the output paths written during the batch.
BatchFolderFiles(written) == {written[i].path : i \in DOMAIN written}

\* The end of redact_batch: an archive of the batch folder when there is more
\* than one result, the single output when there is one, an error otherwise.
BatchResponse(det, acc) ==
    IF Len(acc.results) > 1
    THEN Json([status |-> "json", success |-> TRUE, error |-> "",
               download_id |-> <<"zip">>, offered |-> BatchFolderFiles(acc.written),
               file_count |-> Len(acc.results), total_redactions |-> acc.total_redactions,
               total_categories |-> acc.total_categories, files |-> acc.results],
              det, <<>>, <<>>,
              [NoFiles EXCEPT !.written = acc.written, !.folders = {"batch"},
                              !.zips = {BatchFolderFiles(acc.written)},
                              !.uploads = acc.uploads])
    ELSE IF acc.results # <<>> /\ acc.results[1].ok
    THEN Json([status |-> "json", success |-> TRUE, error |-> "",
               download_id |-> acc.results[1].output_name,
               offered |-> {acc.results[1].output_name},
               file_count |-> Len(acc.results), total_redactions |-> acc.total_redactions,
               total_categories |-> acc.total_categories, files |-> acc.results],
              det, <<>>, <<>>,
              [NoFiles EXCEPT !.written = acc.written, !.folders = {"batch"},
                              !.uploads = acc.uploads])
    ELSE Json(ErrorPayload("failed"), det, <<>>, <<>>,
              [NoFiles EXCEPT !.written = acc.written, !.folders = {"batch"},
                              !.uploads = acc.uploads])

\* The /redact-batch route.
Batch(det, cat, files) ==
    BatchResponse(det, BatchLoop(det, cat, files, 1,
                                 [results |-> <<>>, total_redactions |-> 0,
                                  total_categories |-> NoStats.categories,
                                  written |-> <<>>, uploads |-> {}]))

redact_batch(req, cat) ==
    IF req.files = <<>> THEN Json(ErrorPayload("no files"), NewDetector, <<>>, <<>>, NoFiles)
    ELSE Batch(BuildDetector(req.keys, FieldTerms(req.terms)), cat, req.files)

(***************************************************************************)
(* The state.                                                              *)
(*   impl      the front end: "cli", "gui" or "web"                        *)
(*   catalog   the PREDEFINED_CATEGORIES objects                           *)
(*   detector  the SensitiveInfoDetector                                   *)
(*   task      what is run: a paragraph-format document (its layout), a    *)
(*             page-format document (its number of pages) or one call of   *)
(*             find_sensitive_text                                         *)
(*   pc        where the run is                                            *)
(*   orig      the paragraph last handed to process_paragraph, as it was   *)
(*   para      that paragraph after the call                               *)
(*   page      the page being processed                                    *)
(*   cursor    the number of spans of the page scanned so far              *)
(*   text      the text last given to find_sensitive_text                  *)
(*   matches   what it returned                                            *)
(*   stats     the statistics of the run                                   *)
(*   saved     the number of times the output path was written             *)
(*   fs        the files a boundary has created                            *)
(*   response  what a boundary has reported to its caller                  *)
(***************************************************************************)
VARIABLES impl, catalog, detector, task, pc, orig, para, page, cursor, text, matches,
          stats, saved, fs, response

vars == <<impl, catalog, detector, task, pc, orig, para, page, cursor, text, matches,
          stats, saved, fs, response>>

DocxTask(layout) == [kind |-> "docx", layout |-> layout, pages |-> 0]

PdfTask(n) == [kind |-> "pdf", layout |-> <<>>, pages |-> n]

FindTask == [kind |-> "find", layout |-> <<>>, pages |-> 0]

\* The detector and the catalog of a front end, for the selected keys and the
\* supplied terms.
Configured(im, keys, terms) ==
    /\ impl = im
    /\ catalog = (IF im = "gui" THEN GuiCatalog(keys) ELSE PREDEFINED_CATEGORIES)
    /\ detector = (IF im = "gui" THEN BuildGuiDetector(terms) ELSE BuildDetector(keys, terms))

Idle ==
    /\ orig = <<>>
    /\ para = <<>>
    /\ page = Page(<<>>)
    /\ cursor = 0
    /\ matches = <<>>
    /\ stats = NoStats
    /\ saved = 0
    /\ fs = NoFiles
    /\ response = NoResponse

\* A redact run about to start: the document is open, stats is fresh.
Init ==
    /\ \E im \in Impls, keys \in {CategoryKeys, <<"ssn">>}, terms \in RunTerms :
          Configured(im, keys, terms)
    /\ task \in {DocxTask(q) : q \in Layouts} \cup {PdfTask(n) : n \in 1..MaxPages}
    /\ pc = "run"
    /\ text = <<>>
    /\ Idle

\* A save that does not wait for the loops.
ExhaustedAnytime(im, tk, st) == TRUE

\* The for statements of redact are exhausted: every paragraph of the
\* enumeration, or every page, has been counted.
Exhausted(im, tk, st) ==
    st.units = (IF tk.kind = "docx" THEN Len(Enumerate(im, tk.layout)) ELSE tk.pages)

\* The loops of redact_docx / WordRedactor.redact: the next paragraph of the
\* enumeration is counted and processed.
ProcessParagraph ==
    /\ task.kind = "docx"
    /\ pc = "run"
    /\ stats.units < Len(Enumerate(impl, task.layout))
    /\ \E p \in ParaPool :
          /\ orig' = p
          /\ \E r \in {process_paragraph(impl, detector, catalog, p,
                                          [stats EXCEPT !.units = @ + 1])} :
                /\ para' = r.runs
                /\ text' = r.text
                /\ matches' = r.matches
                /\ stats' = r.stats
    /\ UNCHANGED <<impl, catalog, detector, task, pc, page, cursor, saved, fs, response>>

\* doc.save(output_path); return stats
SaveDocx ==
    /\ task.kind = "docx"
    /\ pc = "run"
    /\ Exhausted(impl, task, stats)
    /\ saved' = saved + 1
    /\ pc' = "done"
    /\ UNCHANGED <<impl, catalog, detector, task, orig, para, page, cursor, text, matches,
                   stats, fs, response>>

\* for page in doc: stats["pages"] += 1; text_dict = page.get_text("dict")
NextPage ==
    /\ task.kind = "pdf"
    /\ pc = "run"
    /\ stats.units < task.pages
    /\ page' \in PagePool
    /\ cursor' = 0
    /\ stats' = [stats EXCEPT !.units = @ + 1]
    /\ pc' = "page"
    /\ UNCHANGED <<impl, catalog, detector, task, orig, para, text, matches, saved, fs, response>>

\* One round of the loop over the spans of the page.
ScanSpan ==
    /\ pc = "page"
    /\ cursor < Len(page.spans)
    /\ \E r \in {scan_span(impl, detector, catalog, page, cursor + 1, stats)} :
          /\ page' = r.page
          /\ stats' = r.stats
          /\ text' = r.text
          /\ matches' = r.matches
    /\ cursor' = cursor + 1
    /\ UNCHANGED <<impl, catalog, detector, task, pc, orig, para, saved, fs, response>>

\* page.apply_redactions(), after the last span
ApplyRedactions ==
    /\ pc = "page"
    /\ cursor = Len(page.spans)
    /\ page' = apply_redactions(page)
    /\ pc' = "run"
    /\ UNCHANGED <<impl, catalog, detector, task, orig, para, cursor, text, matches, stats,
                   saved, fs, response>>

\* doc.save(output_path); doc.close(); return stats
SavePdf ==
    /\ task.kind = "pdf"
    /\ pc = "run"
    /\ Exhausted(impl, task, stats)
    /\ saved' = saved + 1
    /\ pc' = "done"
    /\ UNCHANGED <<impl, catalog, detector, task, orig, para, page, cursor, text, matches,
                   stats, fs, response>>

\* An exception raised by a statement of the loops (or by doc.save before it
\* writes) leaves redact: nothing after it runs.
Raise ==
    /\ task.kind \in {"docx", "pdf"}
    /\ pc \in {"run", "page"}
    /\ pc' = "failed"
    /\ UNCHANGED <<impl, catalog, detector, task, orig, para, page, cursor, text, matches,
                   stats, saved, fs, response>>

Next ==
    \/ ProcessParagraph
    \/ SaveDocx
    \/ NextPage
    \/ ScanSpan
    \/ ApplyRedactions
    \/ SavePdf
    \/ Raise

Spec == Init /\ [][Next]_vars

\* find_sensitive_text on its own: any front end, any selection of categories
\* in any order, any terms, any of the texts.
InitFind ==
    /\ \E im \in Impls, keys \in CatOrders, terms \in TermLists :
          Configured(im, keys, terms)
    /\ task = FindTask
    /\ pc = "call"
    /\ text \in Texts
    /\ Idle

Find ==
    /\ pc = "call"
    /\ matches' = find_sensitive_text(impl, detector, catalog, text)
    /\ pc' = "returned"
    /\ UNCHANGED <<impl, catalog, detector, task, orig, para, page, cursor, text, stats,
                   saved, fs, response>>

NextFind == Find

SpecFind == InitFind /\ [][NextFind]_vars

(***************************************************************************)
(* The boundaries as a state machine: one invocation of main(), one        *)
(* request to /preview or /redact-batch, or a session of the desktop tool. *)
(***************************************************************************)
\* Files uploaded in one batch.
MaxFiles == 2

\* Redact runs in one session of the desktop tool.
MaxSaves == 1

ParaSsn == <<FirstRun(<<"1","2","3","-","4","5","-","6","7","8","9">>)>>

ParaSplit ==
    <<FirstRun(<<"S","S","N"," ","1","2","3","-","4","5">>),
      LaterRun(<<"-","6","7","8","9"," ","o","k">>)>>

ParaHello == <<FirstRun(<<"h","e","l","l","o"," ">>), LaterRun(<<"w","o","r","l","d">>)>>

\* Paragraph-format documents: an SSN in the body; in a table cell; in a
\* header under a body paragraph without matches; split over two runs.
DocxDocs ==
    { <<Para("body", ParaSsn)>>,
      <<Para("tables", ParaSsn)>>,
      <<Para("body", ParaHello), Para("headers", ParaSsn)>>,
      <<Para("body", ParaSplit)>> }

\* Page-format documents: one address; the address twice on a page; a page
\* without matches and a page with the address.
PdfDocs ==
    { <<Page(<<SpanMail>>)>>,
      <<Page(<<SpanMail, SpanSee>>)>>,
      <<Page(<<SpanHello>>), Page(<<SpanMail>>)>> }

\* The ways a file behaves: sound; not openable; save fails after a partial
\* write; save fails before any write.
Healths == {<<TRUE, "ok">>, <<FALSE, "ok">>, <<TRUE, "partial">>, <<TRUE, "nothing">>}

InputFiles ==
    {File("a", ".docx", d, h[1], h[2]) : d \in DocxDocs, h \in Healths}
    \cup {File("a", ".pdf", d, h[1], h[2]) : d \in PdfDocs, h \in Healths}
    \cup {File("a", ".txt", <<>>, TRUE, "ok")}

\* The files of a batch: two sound files of the same name, one that cannot be
\* opened, a sound and an unsavable page document, a text file.
BatchFiles ==
    { File("a", ".docx", <<Para("body", ParaSsn)>>, TRUE, "ok"),
      File("a", ".docx", <<Para("tables", ParaSsn)>>, TRUE, "ok"),
      File("a", ".docx", <<Para("body", ParaSsn)>>, FALSE, "ok"),
      File("b", ".pdf", <<Page(<<SpanMail, SpanSee>>)>>, TRUE, "ok"),
      File("b", ".pdf", <<Page(<<SpanMail>>)>>, TRUE, "partial"),
      File("c", ".txt", <<>>, TRUE, "ok") }

\* --categories / the form's categories
AppKeys == {CategoryKeys, <<"ssn">>, <<"email", "phone">>}

\* --custom / the form's custom_terms, line by line: none; a blank line; a
\* blank line and "123-45"; " john doe ".
AppTerms ==
    { <<>>,
      <<<<" ">>>>,
      <<<<" ">>, <<"1","2","3","-","4","5">>>>,
      <<<<" ","j","o","h","n"," ","d","o","e"," ">>>> }

Request(kind, files, keys, terms, exists, wants_preview) ==
    [kind |-> kind, layout |-> <<>>, pages |-> 0, files |-> files,
     keys |-> keys, terms |-> terms, exists |-> exists, preview |-> wants_preview]

CliRequests ==
    {Request("main", <<f>>, k, t, TRUE, p) :
        f \in InputFiles, k \in AppKeys, t \in AppTerms, p \in BOOLEAN}
    \cup {Request("main", <<File("a", ".pdf", <<>>, FALSE, "ok")>>, CategoryKeys, <<>>,
                   FALSE, FALSE)}

PreviewRequests ==
    {Request("preview", <<f>>, k, t, TRUE, TRUE) :
        f \in InputFiles, k \in AppKeys, t \in AppTerms}
    \cup {Request("preview", <<>>, CategoryKeys, <<>>, TRUE, TRUE)}

BatchRequests ==
    {Request("batch", fl, k, t, TRUE, FALSE) :
        fl \in SeqsUpTo(BatchFiles, MaxFiles), k \in {CategoryKeys, <<"ssn">>},
        t \in {<<>>, <<<<" ">>, <<"1","2","3","-","4","5">>>>}}

\* The desktop tool after __init__: every predefined checkbox is set, the
\* custom one is not, the text box is empty, no file is loaded.
Session ==
    [kind |-> "gui", layout |-> <<>>, pages |-> 0, files |-> <<>>,
     vars |-> [key \in KeySet |-> TRUE], custom_var |-> FALSE, custom_text |-> <<>>]

\* The checkboxes the user clicks, the texts typed into the box, the files
\* browsed to.
ClickKeys == {"ssn"}

BoxTexts == {<<>>, <<<<" ">>, <<"1","2","3","-","4","5">>>>}

BrowseFiles ==
    { File("a", ".docx", <<Para("body", ParaSsn)>>, TRUE, "ok"),
      File("a", ".docx", <<Para("body", ParaHello), Para("headers", ParaSsn)>>, TRUE, "ok"),
      File("a", ".pdf", <<Page(<<SpanMail, SpanSee>>)>>, TRUE, "partial"),
      File("a", ".txt", <<>>, TRUE, "ok") }

\* A boundary about to handle its request.
InitApp ==
    /\ \/ impl = "cli" /\ task \in CliRequests /\ detector = NewDetector
       \/ impl = "web" /\ task \in PreviewRequests \cup BatchRequests
                       /\ detector = NewDetector
       \/ impl = "gui" /\ task = Session /\ detector = AddAll(NewDetector, CategoryKeys)
    /\ catalog = PREDEFINED_CATEGORIES
    /\ pc = "start"
    /\ text = <<>>
    /\ Idle

\* What a handler leaves behind: its response, its detector, the text it
\* scanned and the matches, the stats and the files.
Handled(r) ==
    /\ response' = r.response
    /\ detector' = r.detector
    /\ text' = r.text
    /\ matches' = r.matches
    /\ stats' = r.stats
    /\ fs' = r.fs
    /\ pc' = "done"
    /\ UNCHANGED <<impl, catalog, task, orig, para, page, cursor, saved>>

\* python3 redact_cli.py ...
CliMain ==
    /\ task.kind = "main"
    /\ pc = "start"
    /\ \E r \in {main(task, catalog)} : Handled(r)

\* POST /preview
WebPreview ==
    /\ task.kind = "preview"
    /\ pc = "start"
    /\ \E r \in {preview(task, catalog)} : Handled(r)

\* POST /redact-batch
WebRedactBatch ==
    /\ task.kind = "batch"
    /\ pc = "start"
    /\ \E r \in {redact_batch(task, catalog)} : Handled(r)

\* _toggle_category(key) for a predefined key, after the click has flipped
\* the checkbox: the enabled flag of the object the detector holds, which is
\* the object of PREDEFINED_CATEGORIES, is assigned.
ToggleCategory ==
    /\ task.kind = "gui"
    /\ \E key \in ClickKeys :
          /\ task' = [task EXCEPT !.vars[key] = ~@]
          /\ catalog' = (IF HasKey(detector.categories, key)
                         THEN [catalog EXCEPT ![key].enabled = ~task.vars[key]]
                         ELSE catalog)
    /\ UNCHANGED <<impl, detector, pc, orig, para, page, cursor, text, matches, stats,
                   saved, fs, response>>

\* An update that enables the new object whatever the checkbox says.
UpdateEnabled(det, box, enabled) ==
    add_category(det, OwnItem("Custom",
                              SensitiveCategory(CUSTOM, <<>>, StripTerms(FieldTerms(box)),
                                                TRUE, TRUE)))

\* _update_custom_terms: a new "Custom Terms" object with the stripped lines
\* of the text box, enabled as the custom checkbox says.
update_custom_terms(det, box, enabled) ==
    add_category(det, OwnItem("Custom",
                              SensitiveCategory(CUSTOM, <<>>, StripTerms(FieldTerms(box)),
                                                enabled, TRUE)))

\* _toggle_category("Custom") after the click has flipped the checkbox.
ToggleCustom ==
    /\ task.kind = "gui"
    /\ task' = [task EXCEPT !.custom_var = ~@]
    /\ detector' = (IF ~task.custom_var
                    THEN update_custom_terms(detector, task.custom_text, TRUE)
                    ELSE remove_category(detector, "Custom"))
    /\ UNCHANGED <<impl, catalog, pc, orig, para, page, cursor, text, matches, stats,
                   saved, fs, response>>

\* The user edits the text box.
EditCustomText ==
    /\ task.kind = "gui"
    /\ \E box \in BoxTexts \ {task.custom_text} : task' = [task EXCEPT !.custom_text = box]
    /\ UNCHANGED <<impl, catalog, detector, pc, orig, para, page, cursor, text, matches,
                   stats, saved, fs, response>>

\* The "Update Custom Terms" button.
UpdateCustomTerms ==
    /\ task.kind = "gui"
    /\ detector' = update_custom_terms(detector, task.custom_text, task.custom_var)
    /\ UNCHANGED <<impl, catalog, task, pc, orig, para, page, cursor, text, matches,
                   stats, saved, fs, response>>

\* _browse_file with a file chosen.
BrowseFile ==
    /\ task.kind = "gui"
    /\ \E f \in BrowseFiles \ {task.files[i] : i \in DOMAIN task.files} :
          task' = [task EXCEPT !.files = <<f>>]
    /\ UNCHANGED <<impl, catalog, detector, pc, orig, para, page, cursor, text, matches,
                   stats, saved, fs, response>>

\* The message boxes and the status line of the desktop tool.
Shown(kind, ms, st) ==
    [status |-> "gui", kind |-> kind, total |-> Len(ms), items |-> CategoryCounts(ms),
     redactions |-> st.redactions, categories |-> st.categories]

\* The try of _preview_redactions after _extract_text: the matches shown.
GuiPreviewed(det, cat, t) ==
    [text |-> t, matches |-> find_sensitive_text("gui", det, cat, t)]

\* What a handler of the desktop tool leaves on the screen: the text and the
\* matches of a preview, the stats of a redact run, the message.
Displayed(t, ms, st, kind) ==
    /\ text' = t
    /\ matches' = ms
    /\ stats' = st
    /\ response' = Shown(kind, ms, st)

\* _preview_redactions
GuiPreview ==
    /\ task.kind = "gui"
    /\ UNCHANGED <<impl, catalog, detector, task, pc, orig, para, page, cursor, saved, fs>>
    /\ IF task.files = <<>> THEN Displayed(<<>>, <<>>, NoStats, "warning")
       ELSE IF ~Supported(task.files[1].ext) \/ ~task.files[1].opens
       THEN Displayed(<<>>, <<>>, NoStats, "error")
       ELSE \E r \in {GuiPreviewed(detector, catalog,
                                    extract_text("gui", task.files[1].ext,
                                                 task.files[1].doc))} :
               Displayed(r.text, r.matches, NoStats, "preview")

\* _redact_document with an output path chosen in the dialog: a file of
\* another extension goes to WordRedactor, where Document() raises.
GuiRedact ==
    /\ task.kind = "gui"
    /\ Len(fs.written) < MaxSaves
    /\ IF task.files = <<>>
       THEN Displayed(<<>>, <<>>, NoStats, "warning") /\ UNCHANGED fs
       ELSE IF ~Supported(task.files[1].ext)
       THEN Displayed(<<>>, <<>>, NoStats, "error") /\ UNCHANGED fs
       ELSE \E r \in {RedactFile("gui", detector, catalog, task.files[1],
                                  OutputName(task.files[1]))} :
               /\ Displayed(<<>>, <<>>, r.stats, IF r.ok THEN "success" ELSE "error")
               /\ fs' = [fs EXCEPT !.written = @ \o r.written]
    /\ UNCHANGED <<impl, catalog, detector, task, pc, orig, para, page, cursor, saved>>

NextApp ==
    \/ CliMain
    \/ WebPreview
    \/ WebRedactBatch
    \/ ToggleCategory
    \/ ToggleCustom
    \/ EditCustomText
    \/ UpdateCustomTerms
    \/ BrowseFile
    \/ GuiPreview
    \/ GuiRedact

SpecApp == InitApp /\ [][NextApp]_vars

\* find_sensitive_text on a detector that was also given, through
\* add_category, a category of the caller's own whose patterns are any of a
\* malformed pattern and two sound ones.
MaxPatterns == 2

EXTRA == "Extra"

ExtraPatterns == SeqsUpTo({BadPattern, PatSsnDashed, PatDateDash}, MaxPatterns)

InitPatterns ==
    /\ \E im \in Impls, keys \in {<<>>, <<"email">>}, terms \in RunTerms,
          pats \in ExtraPatterns :
          /\ impl = im
          /\ catalog = PREDEFINED_CATEGORIES
          /\ detector =
                add_category(IF im = "gui" THEN BuildGuiDetector(terms)
                             ELSE BuildDetector(keys, terms),
                             OwnItem("extra", SensitiveCategory(EXTRA, pats, <<>>, TRUE, FALSE)))
    /\ task = FindTask
    /\ pc = "call"
    /\ text \in Texts
    /\ Idle

SpecPatterns == InitPatterns /\ [][NextFind]_vars

\* One call of process_paragraph on a paragraph that also holds a hyperlink
\* after its runs.  para.text (python-docx 1.x) is the text of the runs and of
\* the hyperlinks in order, para.runs is the runs only: a paragraph that is
\* one hyperlink has text and no runs.
LinkTexts == {<<>>, <<"a","@","b",".","c","o">>}

LinkedRuns == {<<>>, ParaHello, ParaSsn, ParaSplit}

LinkedTask(link) == [kind |-> "linked", layout |-> <<>>, pages |-> 0, link |-> link]

\* para.text
LinkedText(runs, link) == ParaText(runs) \o link

process_linked(im, det, cat, runs, link, st) ==
    Redacted(im, runs, st, LinkedText(runs, link), Scan(im, det, cat, LinkedText(runs, link)))

InitLinked ==
    /\ \E im \in Impls, keys \in {CategoryKeys, <<"ssn">>, <<"email">>}, terms \in RunTerms :
          Configured(im, keys, terms)
    /\ task \in {LinkedTask(l) : l \in LinkTexts}
    /\ pc = "call"
    /\ text = <<>>
    /\ orig \in LinkedRuns
    /\ para = orig
    /\ page = Page(<<>>)
    /\ cursor = 0
    /\ matches = <<>>
    /\ stats = NoStats
    /\ saved = 0
    /\ fs = NoFiles
    /\ response = NoResponse

\* process_paragraph(para): the runs are rewritten, the hyperlink stays.
ProcessLinked ==
    /\ task.kind = "linked"
    /\ pc = "call"
    /\ \E r \in {process_linked(impl, detector, catalog, orig, task.link, stats)} :
          /\ para' = r.runs
          /\ text' = r.text
          /\ matches' = r.matches
          /\ stats' = r.stats
    /\ pc' = "returned"
    /\ UNCHANGED <<impl, catalog, detector, task, orig, page, cursor, saved, fs, response>>

NextLinked == ProcessLinked

SpecLinked == InitLinked /\ [][NextLinked]_vars

(***************************************************************************)
(* The detectors side by side.  The detector of redact_cli.py / web_app.py *)
(* takes the term list through set_custom_terms; the detector of           *)
(* redaction_tool.py holds a "Custom Terms" category with the same list as *)
(* its examples.  Both are asked for the matches of the same text.         *)
(***************************************************************************)
\* "John Doe", " John Doe", "123-45-6789" and a blank term
PairTerms ==
    SeqsUpTo({ <<"J","o","h","n"," ","D","o","e">>,
               <<" ","J","o","h","n"," ","D","o","e">>,
               <<"1","2","3","-","4","5","-","6","7","8","9">>,
               <<" ">> }, MaxTerms)

\* "xJohn Doe", "x John Doe 123-45-6789", "john doe"
PairTexts ==
    { <<"x","J","o","h","n"," ","D","o","e">>,
      <<"x"," ","J","o","h","n"," ","D","o","e"," ",
        "1","2","3","-","4","5","-","6","7","8","9">>,
      <<"j","o","h","n"," ","d","o","e">> }

PairTask(keys, terms) ==
    [kind |-> "pair", layout |-> <<>>, pages |-> 0, keys |-> keys, terms |-> terms]

\* The desktop detector with the categories of keys and an enabled
\* exact-match "Custom Terms" category whose examples are terms.
DesktopDetector(keys, terms) ==
    add_category(AddAll(NewDetector, keys),
                 OwnItem("Custom", SensitiveCategory(CUSTOM, <<>>, terms, TRUE, TRUE)))

InitPair ==
    /\ impl \in {"cli", "web"}
    /\ catalog = PREDEFINED_CATEGORIES
    /\ \E keys \in CatOrders, terms \in PairTerms :
          /\ detector = BuildDetector(keys, terms)
          /\ task = PairTask(keys, terms)
    /\ pc = "call"
    /\ text \in PairTexts
    /\ Idle

\* find_sensitive_text of the command-line / web detector.
FindHere ==
    /\ task.kind = "pair"
    /\ pc = "call"
    /\ matches' = find_sensitive_text(impl, detector, catalog, text)
    /\ pc' = "found"
    /\ UNCHANGED <<impl, catalog, detector, task, orig, para, page, cursor, text, stats,
                   saved, fs, response>>

\* find_sensitive_text of the desktop detector, on the same text.
FindDesktop ==
    /\ task.kind = "pair"
    /\ pc = "found"
    /\ response' = [status |-> "matches",
                    matches |-> find_sensitive_text("gui",
                                                    DesktopDetector(task.keys, task.terms),
                                                    catalog, text)]
    /\ pc' = "returned"
    /\ UNCHANGED <<impl, catalog, detector, task, orig, para, page, cursor, text, matches,
                   stats, saved, fs>>

NextPair ==
    \/ FindHere
    \/ FindDesktop

SpecPair == InitPair /\ [][NextPair]_vars

(***************************************************************************)
(* Properties.                                                             *)
(***************************************************************************)
\* The raw occurrences of the scan of the current text.
Raw == RawMatches(impl, Resolve(detector.categories, catalog), detector.custom_terms, text)

RangeOf(q) == {q[i] : i \in DOMAIN q}

\* Whether offset i (0-based) lies inside the span of m.
Inside(m, i) == m.start <= i /\ i < m.end

Returned == task.kind = "find" /\ pc = "returned"

\* A paragraph has been processed and is the current one.
Processed == task.kind = "docx" /\ stats.units > 0

\* C1: after redact on a paragraph-format document, every character of a
\* processed paragraph that lies inside a raw occurrence of an enabled pattern
\* or term holds the block glyph in the output (stated for the front ends that
\* write the one-character glyph).
C1_NoDetectedPartSurvives ==
    (Processed /\ impl # "web") =>
        \A r \in RangeOf(Raw) : \A i \in 0..(Len(text) - 1) :
            Inside(r, i) => (i < Len(ParaText(para)) /\ ParaText(para)[i + 1] = BLOCK)

\* C2: the list find_sensitive_text returns has no overlapping matches: the end
\* of each match is at most the start of the next.
C2_NonOverlap ==
    \A i \in 1..(Len(matches) - 1) : matches[i].end <= matches[i + 1].start

\* Two raw occurrences overlapped and the scan returned at least two matches.
C2_Witness ==
    /\ Returned
    /\ Len(matches) >= 2
    /\ \E a, b \in DOMAIN Raw : a # b /\ Raw[a].start < Raw[b].end /\ Raw[b].start < Raw[a].end

\* C3: among raw occurrences with the same start, a kept one is of maximal
\* length: no raw occurrence starting where a returned match starts is longer.
C3_LongestAtTie ==
    Returned =>
        \A m \in RangeOf(matches) : \A r \in RangeOf(Raw) :
            r.start = m.start => r.end <= m.end

\* The 11-character "Social Security Numbers" match is kept and the custom
\* term's 6-character occurrence at the same start is dropped.
C3_Witness ==
    /\ Returned
    /\ \E m \in RangeOf(matches) : \E r \in RangeOf(Raw) :
          /\ r.start = m.start
          /\ r.end - r.start = 6
          /\ m.end - m.start = 11
          /\ r.category = CUSTOM
          /\ m.category = "Social Security Numbers"

\* C4: in the page-format redact, the scan of a span adds to the redaction
\* counter, and to the category counters together, exactly the number of
\* matches the match engine returned for the span.
C4_CountedOncePerMatch ==
    [][ScanSpan => stats'.redactions = stats.redactions + Len(matches')]_vars

RECURSIVE SumOf(_, _)
SumOf(f, keys) ==
    IF keys = {} THEN 0
    ELSE LET k == CHOOSE x \in keys : TRUE IN f[k] + SumOf(f, keys \ {k})

\* C5: at every point of a redact run the per-category counts sum to the total
\* redaction count.
C5_CategoriesSumToTotal ==
    SumOf(stats.categories, DOMAIN stats.categories) = stats.redactions

\* Matches of two categories have been counted.
C5_Witness ==
    /\ task.kind \in {"docx", "pdf"}
    /\ stats.redactions >= 2
    /\ Cardinality(DOMAIN stats.categories) >= 2

\* C6: a finished paragraph-format run has visited every paragraph of the
\* document: body, table cells, headers and footers.
C6_EveryPartVisited ==
    (task.kind = "docx" /\ pc = "done") => stats.units = Len(task.layout)

\* Whether some match covers offset i.
Covered(ms, i) == \E m \in RangeOf(ms) : Inside(m, i)

\* C7: when a paragraph has matches, the rewritten text has as many characters
\* as the original, the original character outside the matched spans and the
\* block glyph inside them.
C7_SameLengthRewrite ==
    (Processed /\ matches # <<>>) =>
        /\ Len(ParaText(para)) = Len(text)
        /\ \A i \in 0..(Len(text) - 1) :
              ParaText(para)[i + 1] = (IF Covered(matches, i) THEN BLOCK ELSE text[i + 1])

\* C8: processing a paragraph whose text is empty or yields no matches leaves
\* its runs (text and formatting) and the redaction and category counters as
\* they were.
C8_NoOpOnNoMatches ==
    [][(ProcessParagraph /\ matches' = <<>>) =>
          /\ para' = orig'
          /\ stats'.redactions = stats.redactions
          /\ stats'.categories = stats.categories]_vars

\* A two-run paragraph with text and no matches has been processed, after a
\* paragraph that was redacted.
C8_Witness ==
    /\ Processed
    /\ matches = <<>>
    /\ Len(orig) = 2
    /\ text # <<>>
    /\ stats.redactions > 0

\* The position of a key in the catalog's own order; "Custom" comes last.
Rank(key) ==
    IF key \in KeySet THEN CHOOSE i \in DOMAIN CategoryKeys : CategoryKeys[i] = key
    ELSE Len(CategoryKeys) + 1

\* The items of the detector in the catalog's order.
RECURSIVE InCatalogOrder(_, _)
InCatalogOrder(items, r) ==
    IF r > Len(CategoryKeys) + 1 THEN <<>>
    ELSE SelectSeq(items, LAMBDA it : Rank(it.key) = r) \o InCatalogOrder(items, r + 1)

RedactedParts ==
    RedactLoop([i \in DOMAIN text |-> <<text[i]>>], NoStats, matches, 1, Glyph(impl)).new_text

\* The offset in the redacted text at which original offset i lands.
RECURSIVE Lands(_, _)
Lands(parts, i) == IF i = 0 THEN 0 ELSE Len(parts[i]) + Lands(parts, i - 1)

\* find_sensitive_text on the redacted text with the five positional categories.
Rescan ==
    find_sensitive_text(impl, BuildDetector(CategoryKeys, <<>>), PREDEFINED_CATEGORIES,
                        Join(RedactedParts))

\* C10: scanning the redacted text again with the positional categories returns
\* no match that intersects a span redacted before.
C10_RescanAvoidsRedacted ==
    Returned =>
        \A r \in RangeOf(Rescan) : \A m \in RangeOf(matches) :
            ~(r.start < Lands(RedactedParts, m.end) /\ Lands(RedactedParts, m.start) < r.end)

\* Something was redacted and the second scan still returns a match, outside
\* the redacted spans.
C10_Witness ==
    /\ Returned
    /\ matches # <<>>
    /\ Rescan # <<>>

\* C11: every returned match has 0 <= start < end <= length of the scanned
\* text, and its matched text is the text between start and end; no match is
\* empty.
C11_MatchBounds ==
    Returned =>
        \A m \in RangeOf(matches) :
            /\ 0 <= m.start
            /\ m.start < m.end
            /\ m.end <= Len(text)
            /\ m.text = [i \in 1..(m.end - m.start) |-> text[m.start + i]]

\* A match that ends at the end of the text was returned together with a match
\* of a custom term.
C11_Witness ==
    /\ Returned
    /\ \E m \in RangeOf(matches) : m.end = Len(text)
    /\ \E m \in RangeOf(matches) : m.category = CUSTOM

\* C12: in a redact run the output path is written at most once, and only
\* after every page (or every paragraph) has been processed; a run that failed
\* before the save has written nothing.
C12_SavedOnceAtEnd ==
    task.kind \in {"docx", "pdf"} =>
        /\ saved <= 1
        /\ saved = 1 =>
              /\ pc = "done"
              /\ stats.units = (IF task.kind = "docx"
                                THEN Len(Enumerate(impl, task.layout)) ELSE task.pages)
              /\ task.kind = "pdf" => page.applied = 1
        /\ pc = "failed" => saved = 0

\* A run failed after it had redacted something and before its last unit.
C12_Witness ==
    /\ task.kind \in {"docx", "pdf"}
    /\ pc = "failed"
    /\ stats.redactions > 0
    /\ ~Exhausted(impl, task, stats)
    /\ saved = 0

\* A request to one of the boundaries has been handled.
Answered == task.kind \in {"main", "preview", "batch"} /\ pc = "done"

\* The caller was told of an error: a non-zero exit code, or an error payload.
IsError(r) ==
    \/ r.status = "exit" /\ r.code # 0
    \/ r.status = "json" /\ r.error # ""

AnyUnsupported == \E i \in DOMAIN task.files : ~Supported(task.files[i].ext)

\* C13: a request with a file of an unsupported extension is answered with an
\* error, and no output file, folder or archive has been created.
C13_UnsupportedRejected ==
    (Answered /\ AnyUnsupported) => (IsError(response) /\ fs = NoFiles)

\* Opening or saving one of the request's documents fails during redact.
RedactFails ==
    /\ task.kind \in {"main", "batch"}
    /\ task.exists /\ ~task.preview
    /\ \E i \in DOMAIN task.files :
          /\ Supported(task.files[i].ext)
          /\ ~task.files[i].opens \/ task.files[i].saves # "ok"

\* The output files the response offers for download.
Offered == IF response.status = "json" /\ response.error = "" THEN response.offered ELSE {}

\* C14: when opening or saving a document fails during redact, the boundary
\* answers with an error (a non-zero exit code, an error payload), and offers
\* no output file whose save did not return.
C14_FailureSignalled ==
    (Answered /\ RedactFails) =>
        /\ IsError(response)
        /\ \A i \in DOMAIN fs.written : ~fs.written[i].complete => fs.written[i].path \notin Offered

\* The request is a preview: --preview, POST /preview.
PreviewRequested ==
    \/ task.kind = "preview"
    \/ task.kind = "main" /\ task.exists /\ task.preview

\* C15: a preview (--preview of the command line, POST /preview, the Preview
\* button) writes no output file, creates no folder or archive, and leaves the
\* input document as it was.
C15_PreviewWritesNothing ==
    [][((PreviewRequested /\ pc = "start") \/ GuiPreview) =>
          /\ fs' = fs
          /\ task'.files = task.files]_vars

\* A --preview run has reported matches and written nothing.
C15_Witness ==
    /\ Answered
    /\ task.kind = "main" /\ task.preview
    /\ response.code = 0 /\ response.total > 0
    /\ fs.written = <<>>

\* The per-category items a preview reported.
PreviewItems(r) == IF r.status = "exit" THEN r.items ELSE r.categories

\* The preview's report r against the stats st of redact.
Agrees(r, st) == r.total = st.redactions /\ PreviewItems(r) = st.categories

\* C16: what a preview reports (the items and the total) is what redact on the
\* same document with the same detector counts as redactions.
C16_PreviewAgreesWithRedact ==
    (Answered /\ PreviewRequested /\ ~IsError(response)) =>
        Agrees(response, Redact(impl, detector, catalog, task.files[1].ext,
                                task.files[1].doc).stats)

\* C17: no field of a category object changes after the object is constructed,
\* whatever the user does; the objects of PREDEFINED_CATEGORIES stay as the
\* module built them.
C17_CatalogNeverMutated == [][catalog' = catalog]_vars

\* The detector without the patterns re rejects.
WithoutBad(det) ==
    [det EXCEPT !.categories =
        [i \in DOMAIN @ |->
            [@[i] EXCEPT !.obj.patterns = SelectSeq(@, LAMBDA n : n.k # "bad")]]]

IsBlank(t) == \A i \in DOMAIN t : t[i] \in Spaces

\* The custom terms the request supplies: --custom on the command line, the
\* lines of the form field.
Supplied == IF task.kind = "main" THEN task.terms ELSE FieldTerms(task.terms)

\* The detector the request would get had the blank terms not been supplied.
BlanksLeftOut ==
    BuildDetector(task.keys, SelectSeq(Supplied, LAMBDA t : ~IsBlank(t)))

\* C19: blank and whitespace-only custom terms are discarded before the scan:
\* no match of the custom category is blank, and the scan returns what it
\* returns when the blank terms are not supplied at all (so a list of blank
\* terms only gives what the empty list gives).
C19_BlankTermsDiscarded ==
    /\ \A m \in RangeOf(matches) : m.category = CUSTOM => ~IsBlank(m.text)
    /\ (Answered /\ PreviewRequested /\ ~IsError(response)) =>
          matches = find_sensitive_text(impl, BlanksLeftOut, catalog, text)

\* A preview of a text with spaces in it, with a blank term and "123-45"
\* supplied, has returned a match of the custom category.
C19_Witness ==
    /\ Answered /\ PreviewRequested
    /\ \E i \in DOMAIN Supplied : IsBlank(Supplied[i])
    /\ \E i \in DOMAIN text : text[i] = " "
    /\ \E m \in RangeOf(matches) : m.category = CUSTOM

\* "Contact John Doe at john@x.com or 555-123-4567."
Sentence ==
    <<"C","o","n","t","a","c","t"," ","J","o","h","n"," ","D","o","e"," ","a","t"," ",
      "j","o","h","n","@","x",".","c","o","m"," ","o","r"," ",
      "5","5","5","-","1","2","3","-","4","5","6","7",".">>

\* The sentence was scanned with the email and phone categories and the custom
\* term "John Doe".
ScannedSentence ==
    /\ Returned
    /\ text = Sentence
    /\ \E keys \in {<<"email", "phone">>, <<"phone", "email">>} :
          Configured(impl, keys, <<<<"J","o","h","n"," ","D","o","e">>>>)

\* C20: the scan of the sentence returns exactly three matches from left to
\* right, "John Doe" of the custom category, "john@x.com" of the email
\* category and "555-123-4567" of the phone category, and redacting a
\* paragraph with that text counts 3 redactions.
C20_ThreeMatches ==
    ScannedSentence =>
        /\ Len(matches) = 3
        /\ matches[1] = Match(8, 16, Sentence, CUSTOM)
        /\ matches[2] = Match(20, 30, Sentence, PREDEFINED_CATEGORIES["email"].name)
        /\ matches[3] = Match(34, 46, Sentence, PREDEFINED_CATEGORIES["phone"].name)
        /\ process_paragraph(impl, detector, catalog, <<FirstRun(Sentence)>>,
                             NoStats).stats.redactions = 3

\* The scan of the sentence has returned its matches.
C20_Witness == ScannedSentence /\ matches # <<>>

\* The indices of the sorted occurrences s[1..i] that are kept when an
\* occurrence is kept if and only if its start is at or after the end of the
\* last one kept before it.
RECURSIVE KeptUpTo(_, _)
Later(s, i, kept) ==
    IF s[i].start >= (IF kept = {} THEN -1
                      ELSE s[CHOOSE k \in kept : \A j \in kept : j <= k].end)
    THEN kept \cup {i} ELSE kept

KeptUpTo(s, i) == IF i = 0 THEN {} ELSE Later(s, i, KeptUpTo(s, i - 1))

\* The returned list against the sorted raw occurrences s and the kept
\* indices.
SweptFrom(s, kept) ==
    /\ matches = [j \in 1..Cardinality(kept) |->
                     s[CHOOSE k \in kept : Cardinality({x \in kept : x <= k}) = j]]
    /\ \A i \in DOMAIN s \ kept :
          \E k \in kept : s[k].start <= s[i].start /\ s[i].start < s[k].end
    /\ \A m \in RangeOf(matches) : m \in RangeOf(Raw)

C22_CountIsSumOfMatches ==
    [][ProcessParagraph => stats'.redactions = stats.redactions + Len(matches')]_vars

\* A second paragraph with one match of eleven characters has been processed
\* after a paragraph with one match.
C22_Witness ==
    /\ Processed
    /\ stats.units = 2
    /\ Len(matches) = 1
    /\ matches[1].end - matches[1].start = 11
    /\ stats.redactions = 2

\* C23: after a paragraph with matches is rewritten, its first run holds the
\* whole new text, every other run holds no text, and the first run's font
\* name, size, bold and italic are those of the original first run.
C23_CollapsedToFirstRun ==
    (Processed /\ matches # <<>>) =>
        /\ Len(para) = Len(orig)
        /\ para[1].text = Join(RedactedParts)
        /\ \A i \in 2..Len(para) : para[i].text = <<>>
        /\ para[1].name = orig[1].name
        /\ para[1].size = orig[1].size
        /\ para[1].bold = orig[1].bold
        /\ para[1].italic = orig[1].italic

\* A paragraph of two runs, whose match lies across both, has been rewritten.
C23_Witness ==
    /\ Processed
    /\ matches # <<>>
    /\ Len(orig) = 2
    /\ matches[1].start < Len(orig[1].text)
    /\ matches[1].end > Len(orig[1].text)

\* C24: in the page-format redact the fills of a page are applied exactly
\* once, after every span of the page has been scanned and before the next
\* page is begun or the document is saved; no region is marked on a page
\* whose fills have been applied.
C24_AppliedOncePerPage ==
    [][task.kind = "pdf" =>
          /\ page'.applied <= 1
          /\ page'.applied > page.applied => (pc = "page" /\ cursor = Len(page.spans))
          /\ page'.annots # page.annots /\ page'.annots # <<>> =>
                (page.applied = 0 /\ page'.applied = 0)
          /\ cursor' # cursor /\ cursor' > 0 => page.applied = 0
          /\ stats'.units > stats.units /\ stats.units > 0 =>
                (page.applied = 1 /\ page'.applied = 0)
          /\ saved' > saved => page.applied = 1]_vars

\* The second page is being marked, after the fills of the first were applied.
C24_Witness ==
    /\ task.kind = "pdf"
    /\ pc = "page"
    /\ stats.units = 2
    /\ page.annots # <<>>
    /\ page.applied = 0

\* The paragraph and the counters are what a second call of process_paragraph
\* on the paragraph, as the first call left it, returns.
SecondPassSame(r) ==
    /\ r.runs = para
    /\ r.stats.redactions = stats.redactions
    /\ r.stats.categories = stats.categories

\* C25: processing a paragraph a second time changes neither the paragraph's
\* text nor the redaction and category counters.
C25_SecondPassChangesNothing ==
    Processed => SecondPassSame(process_paragraph(impl, detector, catalog, para, stats))

\* C26: whenever process_paragraph has increased the counters, the text the
\* paragraph holds afterwards is the redacted character sequence, also for a
\* paragraph with text and no runs.
C26_CountedOnlyIfReplaced ==
    (task.kind = "linked" /\ pc = "returned" /\ stats.redactions > 0) =>
        LinkedText(para, task.link) = Join(RedactedParts)

\* The entries of the batch response for the files that were redacted.
Succeeded(files) == {i \in DOMAIN files : files[i].ok}

\* The download against the entries of the response: one output for every
\* redacted file, each under a name of its own, and no output of a failed run.
OnePerSuccess(files) ==
    /\ Cardinality(Offered) = Cardinality(Succeeded(files))
    /\ \A i, j \in Succeeded(files) : i # j => files[i].output_name # files[j].output_name
    /\ \A i \in DOMAIN fs.written : ~fs.written[i].complete => fs.written[i].path \notin Offered

\* C27: the download of a web batch holds exactly one redacted output for
\* every file that was processed successfully and nothing else.
C27_OneOutputPerSuccess ==
    (Answered /\ task.kind = "batch" /\ ~IsError(response)) => OnePerSuccess(response.files)

\* C28: when /preview or /redact-batch has answered, on the success path and
\* on every failure path, no input copy is left in the upload folder.
C28_UploadsRemoved ==
    (Answered /\ task.kind \in {"preview", "batch"}) => fs.uploads = {}

\* A batch has answered with one file redacted and one file failed.
C28_Witness ==
    /\ Answered
    /\ task.kind = "batch"
    /\ ~IsError(response)
    /\ \E i, j \in DOMAIN response.files : response.files[i].ok /\ ~response.files[j].ok
    /\ fs.uploads = {}

\* The checkbox of a category key of the desktop tool.
Checked(key) == IF key = "Custom" THEN task.custom_var ELSE task.vars[key]

\* The keys whose category find_sensitive_text does not skip.
Contributing ==
    {detector.categories[i].key :
        i \in {j \in DOMAIN detector.categories :
                  Resolve(detector.categories, catalog)[j].enabled}}

\* The raw occurrences the detector of the session collects in t.
SessionRaw(t) ==
    RawMatches("gui", Resolve(detector.categories, catalog), detector.custom_terms, t)

\* The session finds an occurrence of category name in t.
Finds(name, t) == \E i \in DOMAIN SessionRaw(t) : SessionRaw(t)[i].category = name

\* C29: in the desktop tool, after any toggles and "Update Custom Terms"
\* presses, find_sensitive_text scans a category exactly if its checkbox is
\* checked: an SSN is found exactly while its box is checked, and a custom
\* term is found only while the Custom Terms box is checked.
C29_ContributesIffChecked ==
    task.kind = "gui" =>
        /\ \A key \in KeySet \cup {"Custom"} : key \in Contributing <=> Checked(key)
        /\ Finds(PREDEFINED_CATEGORIES["ssn"].name, ParaText(ParaSsn)) <=> Checked("ssn")
        /\ Finds(CUSTOM, ParaText(ParaSsn)) => Checked("Custom")

\* "Update Custom Terms" was pressed with terms in the box while the Custom
\* Terms box is unchecked, and the SSN box is unchecked too.
C29_Witness ==
    /\ task.kind = "gui"
    /\ ~task.custom_var
    /\ ~task.vars["ssn"]
    /\ \E i \in DOMAIN detector.categories :
          /\ detector.categories[i].key = "Custom"
          /\ detector.categories[i].obj.examples # <<>>

\* Both detectors have answered.
Paired == task.kind = "pair" /\ pc = "returned"

\* No term of the list has white space around it.
NonePadded(terms) == \A i \in DOMAIN terms : Strip(terms[i]) \in {<<>>, terms[i]}

\* C30: for every text, every selection of predefined categories and every
\* term list T, the command-line / web detector with custom terms T returns
\* the match list of the desktop detector that holds the same categories
\* and an enabled exact-match "Custom Terms" category with terms T.
C30_SameMatchList == Paired => response.matches = matches

\* The two lists are the same whenever no term of T is padded.
PairedSameUnpadded == (Paired /\ NonePadded(task.terms)) => response.matches = matches

====
